---- MODULE Spec2Model ----
(***************************************************************************)
(* A model of py_calling_agent's agent execution engine                    *)
(* (src/src/py_calling_agent/agent.py): the bounded message history, the   *)
(* execution context, the run loop (run) and the streaming run loop        *)
(* (stream_events), one action per stretch of code between two suspension  *)
(* points (await / yield).                                                 *)
(***************************************************************************)
EXTENDS Integers, Sequences, FiniteSets, TLC

(***************************************************************************)
(* Bounds of the model.                                                    *)
(***************************************************************************)
\* step budgets 1..MaxStepsBound are explored (besides the default budget)
MaxStepsBound == 2
\* history capacities 1..MaxHistoryBound are explored (besides the default)
MaxHistoryBound == 4
\* number of run / stream_events invocations made on the one agent instance
MaxRuns == 2
\* number of times sandbox code changes the sandbox's variables
MaxRuntimeChanges == 1
\* the model streams chunks of 1..MaxChunk characters
MaxChunk == 2
\* a second or later invocation is made only if the step budgets of all the
\* invocations then made total at most MaxTurns
MaxTurns == 4

(***************************************************************************)
(* Program constants.                                                      *)
(***************************************************************************)
\* PyCallingAgent.__init__: max_steps: int = 5
DefaultMaxSteps == 5
\* PyCallingAgent.__init__: max_history: int = 10
DefaultMaxHistory == 10

Runs == 1..MaxRuns

\* (max_steps, max_history) pairs the agent is constructed with: every small
\* pair, and the constructor's defaults.
Configs ==
    ((1..MaxStepsBound) \X (1..MaxHistoryBound))
        \cup {<<DefaultMaxSteps, DefaultMaxHistory>>}

Max(a, b) == IF a >= b THEN a ELSE b
Min(a, b) == IF a <= b THEN a ELSE b

(***************************************************************************)
(* Text.  A string of the program is a sequence of one-character strings.  *)
(* The character ~ stands for a backtick of a fence and p for the language *)
(* tag, so the opening marker of a fenced block is ~~p and the closing     *)
(* marker is ~~.                                                           *)
(***************************************************************************)
OpenMarker == <<"~", "~", "p">>
CloseMarker == <<"~", "~">>
Whitespace == {" "}

\* the decimal rendering of a small number inside a formatted string
Digits == <<"0", "1", "2", "3", "4", "5", "6", "7", "8", "9">>
Str(n) == Digits[(n % 10) + 1]

\* s[i:] of Python for 0 <= i (1-based position i+1 onwards)
From(s, i) == SubSeq(s, i, Len(s))

\* whether t occurs in s at position i
OccursAt(s, t, i) ==
    /\ i >= 1
    /\ i + Len(t) - 1 <= Len(s)
    /\ SubSeq(s, i, i + Len(t) - 1) = t

\* the first position >= from at which t occurs in s, 0 when there is none
Find(s, t, from) ==
    LET hits == {i \in from..Len(s) : OccursAt(s, t, i)}
    IN  IF hits = {} THEN 0 ELSE CHOOSE i \in hits : \A j \in hits : i <= j

RECURSIVE LStrip(_)
LStrip(s) ==
    IF s # <<>> /\ Head(s) \in Whitespace THEN LStrip(Tail(s)) ELSE s

RECURSIVE RStrip(_)
RStrip(s) ==
    IF s # <<>> /\ s[Len(s)] \in Whitespace
    THEN RStrip(SubSeq(s, 1, Len(s) - 1))
    ELSE s

Strip(s) == RStrip(LStrip(s))

(***************************************************************************)
(* Message roles and messages.                                             *)
(***************************************************************************)
SYSTEM == "system"
USER == "user"
ASSISTANT == "assistant"
CODE_EXECUTION == "code_execution"
EXECUTION_RESULT == "execution_result"

MessageRole == {SYSTEM, USER, ASSISTANT, CODE_EXECUTION, EXECUTION_RESULT}

role_conversions ==
    [r \in {CODE_EXECUTION, EXECUTION_RESULT} |->
        IF r = CODE_EXECUTION THEN ASSISTANT ELSE USER]

Message(content, role) == [role |-> role, content |-> content]
SystemMessage(content) == Message(content, SYSTEM)
UserMessage(content) == Message(content, USER)
AssistantMessage(content) == Message(content, ASSISTANT)
CodeExecutionMessage(content) == Message(content, CODE_EXECUTION)
ExecutionResultMessage(content) == Message(content, EXECUTION_RESULT)

(***************************************************************************)
(* Collaborators outside agent.py: the response classifier, the prompt     *)
(* templates and the sandbox.                                              *)
(***************************************************************************)
\* utils.extract_python_code: the stripped body of the first fenced block of
\* the response; the empty string stands for both None (no block) and an empty
\* block, which the callers do not tell apart (`if not code_snippet`).
extract_python_code(response) ==
    LET open == Find(response, OpenMarker, 1)
        body == open + Len(OpenMarker)
        close == IF open = 0 THEN 0 ELSE Find(response, CloseMarker, body)
    IN  IF open = 0 \/ close = 0
        THEN <<>>
        ELSE Strip(SubSeq(response, body, close - 1))

\* NEXT_STEP_PROMPT.format(execution_result=...)
NEXT_STEP_PROMPT(execution_result) == <<"N", ":">> \o execution_result

\* a retry prompt that leaves the error text out
RetryPrompt_without_error(error_msg) == <<"E", ":", "!">>

\* f"Error: {error_msg}\nPlease fix the code and try again."
RetryPrompt(error_msg) == <<"E", ":">> \o error_msg \o <<"!">>

\* f"Execution failed: {error_msg}"
ExecutionFailed(error_msg) == <<"X", ":">> \o error_msg

\* what the model may answer: prose, prose followed by a fenced block of code,
\* a fenced block that is empty, and a fence that is never closed
Responses ==
    { <<"a">>,
      <<"a", "~", "~", "p", "c", "~", "~">>,
      <<"~", "~", "p", " ", "~", "~">>,
      <<"~", "~", "p", "c">> }

\* the query of the caller's rid-th invocation
Query(rid) == <<"q", Str(rid)>>

\* how runtime.execute(code) may end: with a result and the sandbox's variables
\* as they were, with a result and the variables changed, or by raising
Outcomes == {"ok", "changed", "error"}

\* the result string of a successful execution, the text of a raised error
execution_result(code) == <<"r", "=">> \o code
error_text(code) == <<"e", "=">> \o code

(***************************************************************************)
(* ExecutionContext.                                                       *)
(***************************************************************************)
INITIALIZED == "INITIALIZED"
RUNNING == "RUNNING"
COMPLETED == "COMPLETED"
MAX_STEPS_REACHED == "MAX_STEPS_REACHED"

ExecutionContext(ms) ==
    [max_steps |-> ms, total_steps |-> 0, state |-> INITIALIZED]

start(context) == [context EXCEPT !.total_steps = 0, !.state = RUNNING]

\* next_step with the budget test off by one (`>` for `>=`)
next_step_off_by_one(context) ==
    IF context.total_steps > context.max_steps
    THEN [context |-> [context EXCEPT !.state = MAX_STEPS_REACHED],
          ret |-> FALSE]
    ELSE [context |-> [context EXCEPT !.total_steps = @ + 1], ret |-> TRUE]

\* next_step that counts the step it refuses
next_step_counts_refusal(context) ==
    IF context.total_steps >= context.max_steps
    THEN [context |-> [context EXCEPT !.state = MAX_STEPS_REACHED,
                                      !.total_steps = @ + 1],
          ret |-> FALSE]
    ELSE [context |-> [context EXCEPT !.total_steps = @ + 1], ret |-> TRUE]

\* next_step that grants a step without counting it
next_step_uncounted(context) ==
    IF context.total_steps >= context.max_steps
    THEN [context |-> [context EXCEPT !.state = MAX_STEPS_REACHED],
          ret |-> FALSE]
    ELSE [context |-> context, ret |-> TRUE]

\* the context after the call, and the value returned
next_step(context) ==
    IF context.total_steps >= context.max_steps
    THEN [context |-> [context EXCEPT !.state = MAX_STEPS_REACHED],
          ret |-> FALSE]
    ELSE [context |-> [context EXCEPT !.total_steps = @ + 1], ret |-> TRUE]

\* complete that ends the context in the wrong terminal state
complete_as_max_steps(context) == [context EXCEPT !.state = MAX_STEPS_REACHED]

\* complete that forgets to leave RUNNING
complete_stays_running(context) == context

complete(context) == [context EXCEPT !.state = COMPLETED]

\* is_running that still holds once the context is COMPLETED
is_running_after_complete(context) == context.state \in {RUNNING, COMPLETED}

is_running(context) == context.state = RUNNING

(***************************************************************************)
(* AgentResponse and Event.                                                *)
(***************************************************************************)
SUCCESS == "success"

AgentResponse(content, status, steps_taken, ms) ==
    [content |-> content, status |-> status, steps_taken |-> steps_taken,
     max_steps |-> ms]

\* run has not returned
NoResponse == AgentResponse(<<>>, "none", 0, 0)

TEXT == "text"
CODE == "code"
EXECUTION_ERROR == "execution_error"
FINAL_RESPONSE == "final_response"

Event(type, content) == [type |-> type, content |-> content]

\* ExecutionStatus.MAX_STEPS_REACHED and EventType.MAX_STEPS_REACHED
STATUS_MAX_STEPS_REACHED == "max_steps_reached"
EVENT_MAX_STEPS_REACHED == "max_steps_reached"
\* EventType.EXECUTION_RESULT
EVENT_EXECUTION_RESULT == "execution_result"

(***************************************************************************)
(* State.                                                                  *)
(***************************************************************************)
VARIABLES
    max_steps,      \* self.max_steps
    max_history,    \* self.max_history
    messages,       \* self.messages
    runtime,        \* the sandbox's state: how often code has changed it
    clock,          \* datetime.now(), read by build_system_prompt
    pc,             \* per invocation: where its coroutine / generator stands
    mode,           \* per invocation: "run" or "stream"
    context,        \* per invocation: its ExecutionContext
    response,       \* per invocation: the AgentResponse run returned
    events,         \* per invocation: the events stream_events has yielded
    sent,           \* per invocation: the list last passed to the model
    model_response, \* per invocation: the response being processed
    rest,           \* per invocation: what the model has still to stream
    chunks,         \* per invocation: the chunks collected so far, joined
    parser,         \* per invocation: its StreamingTextParser
    pending,        \* per invocation: segments parsed and not yet yielded
    appended,       \* history: every message passed to add_message, in order
    last_system,    \* history: the prompt _update_system_message last wrote
    turn,           \* per invocation: the roles appended in its current turn
    answers,        \* per invocation: the responses the model gave it
    outcomes,       \* per invocation: how its sandbox executions ended
    authors,        \* history: which invocation appended each message
    overlapped      \* history: an invocation began while another was on

vars ==
    <<max_steps, max_history, messages, runtime, clock, pc, mode, context,
      response, events, sent, model_response, rest, chunks, parser, pending,
      appended, last_system, turn, answers, outcomes, authors, overlapped>>

(***************************************************************************)
(* PyCallingAgent: the message store.                                      *)
(***************************************************************************)
\* s[-k:] of Python for k >= 0; -0 is 0, so s[-0:] is all of s
LastK(s, k) == IF k = 0 THEN s ELSE SubSeq(s, Max(Len(s) - k + 1, 1), Len(s))

build_system_prompt == <<"S", Str(runtime), "@", Str(clock)>>

_trim_history(msgs) ==
    IF Len(msgs) > max_history
    THEN LET system_msg == msgs[1]
             non_system_messages == Tail(msgs)
             max_non_system_messages == max_history - 1
             recent_msgs ==
                 IF Len(non_system_messages) > max_non_system_messages
                 THEN LastK(non_system_messages, max_non_system_messages)
                 ELSE non_system_messages
         IN  <<system_msg>> \o recent_msgs
    ELSE msgs

add_message(msgs, message) == _trim_history(Append(msgs, message))

\* _update_system_message that inserts without looking at index 0
_update_system_message_always_inserts(msgs) ==
    <<SystemMessage(build_system_prompt)>> \o msgs

\* _update_system_message that leaves a system message it finds as it is
_update_system_message_keeps_old(msgs) ==
    IF msgs # <<>> /\ msgs[1].role = SYSTEM
    THEN msgs
    ELSE <<SystemMessage(build_system_prompt)>> \o msgs

_update_system_message(msgs) ==
    LET system_prompt == build_system_prompt
    IN  IF msgs # <<>> /\ msgs[1].role = SYSTEM
        THEN [msgs EXCEPT ![1] = SystemMessage(system_prompt)]
        ELSE <<SystemMessage(system_prompt)>> \o msgs

\* _initialize_conversation that appends the query before it writes the
\* system message
_initialize_conversation_query_first(msgs, user_query) ==
    _update_system_message(add_message(msgs, UserMessage(user_query)))

_initialize_conversation(msgs, user_query) ==
    add_message(_update_system_message(msgs), UserMessage(user_query))

\* _prepare_messages that passes the internal roles on unconverted
_prepare_messages_unconverted(msgs) ==
    [i \in 1..Len(msgs) |->
        [role |-> msgs[i].role, content |-> msgs[i].content]]

_prepare_messages(msgs) ==
    [i \in 1..Len(msgs) |->
        [role |-> IF msgs[i].role \in DOMAIN role_conversions
                  THEN role_conversions[msgs[i].role]
                  ELSE msgs[i].role,
         content |-> msgs[i].content]]

(***************************************************************************)
(* StreamingTextParser (streaming_text_parser.py), after section 4.4 of    *)
(* the specification: text is buffered until an opening marker completes,  *)
(* code until a closing marker completes; a partial marker is held back.   *)
(***************************************************************************)
OUTSIDE_CODE == "OUTSIDE_CODE"
ENTERING_CODE == "ENTERING_CODE"
INSIDE_CODE == "INSIDE_CODE"
EXITING_CODE == "EXITING_CODE"

Segment(type, content) == [type |-> type, content |-> content]

StreamingTextParser ==
    [state |-> OUTSIDE_CODE, buffer |-> <<>>, partial |-> <<>>]

IsPrefix(s, t) == Len(s) <= Len(t) /\ SubSeq(t, 1, Len(s)) = s

\* the parser after the characters cs, and the segments completed on the way
RECURSIVE Feed(_, _, _)
Feed(P, cs, segs) ==
    IF cs = <<>>
    THEN [parser |-> P, segments |-> segs]
    ELSE
      LET c == Head(cs)
          marker == IF P.state \in {OUTSIDE_CODE, ENTERING_CODE}
                    THEN OpenMarker ELSE CloseMarker
          holding == P.state \in {ENTERING_CODE, EXITING_CODE}
          home == IF P.state \in {OUTSIDE_CODE, ENTERING_CODE}
                  THEN OUTSIDE_CODE ELSE INSIDE_CODE
          away == IF home = OUTSIDE_CODE THEN INSIDE_CODE ELSE OUTSIDE_CODE
          cand == Append(P.partial, c)
          done == IF home = OUTSIDE_CODE
                  THEN (IF P.buffer = <<>>
                        THEN segs
                        ELSE Append(segs, Segment(TEXT, P.buffer)))
                  ELSE Append(segs, Segment(CODE, P.buffer))
      IN  IF cand = marker
          THEN Feed([state |-> away, buffer |-> <<>>, partial |-> <<>>],
                    Tail(cs), done)
          ELSE IF IsPrefix(cand, marker)
          THEN Feed([P EXCEPT !.state = IF home = OUTSIDE_CODE
                                        THEN ENTERING_CODE ELSE EXITING_CODE,
                              !.partial = cand],
                    Tail(cs), segs)
          ELSE IF holding
          THEN \* no marker after all: its first character is content, the
               \* others are scanned again
               Feed([state |-> home, buffer |-> Append(P.buffer, P.partial[1]),
                     partial |-> <<>>],
                    Tail(P.partial) \o cs, segs)
          ELSE Feed([P EXCEPT !.buffer = Append(@, c)], Tail(cs), segs)

\* process_chunk that does not keep a partial marker from one call to the next:
\* what was held back at the end of a chunk is dropped
process_chunk_forgets_partial(P, chunk) ==
    Feed([P EXCEPT !.partial = <<>>,
                   !.state = IF @ \in {OUTSIDE_CODE, ENTERING_CODE}
                             THEN OUTSIDE_CODE ELSE INSIDE_CODE],
         chunk, <<>>)

process_chunk(P, chunk) == Feed(P, chunk, <<>>)

(***************************************************************************)
(* Initial state: the agent as PyCallingAgent.__init__ leaves it, and no   *)
(* invocation made yet.                                                    *)
(***************************************************************************)
\* the `messages` a caller constructs the agent with: none (the default), or
\* an earlier exchange
InitialHistories ==
    { <<>>, <<UserMessage(<<"h">>), AssistantMessage(<<"h">>)>> }

Init ==
    /\ \E cfg \in Configs : max_steps = cfg[1] /\ max_history = cfg[2]
    /\ messages \in InitialHistories
    /\ runtime = 0
    /\ clock = 0
    /\ pc = [r \in Runs |-> "idle"]
    /\ mode = [r \in Runs |-> "run"]
    /\ context = [r \in Runs |-> ExecutionContext(0)]
    /\ response = [r \in Runs |-> NoResponse]
    /\ events = [r \in Runs |-> <<>>]
    /\ sent = [r \in Runs |-> <<>>]
    /\ model_response = [r \in Runs |-> <<>>]
    /\ rest = [r \in Runs |-> <<>>]
    /\ chunks = [r \in Runs |-> <<>>]
    /\ parser = [r \in Runs |-> StreamingTextParser]
    /\ pending = [r \in Runs |-> <<>>]
    /\ appended = messages
    /\ last_system = <<>>
    /\ turn = [r \in Runs |-> <<>>]
    /\ answers = [r \in Runs |-> <<>>]
    /\ outcomes = [r \in Runs |-> <<>>]
    /\ authors = [i \in 1..Len(messages) |-> 0]
    /\ overlapped = FALSE

\* an invocation that is not in progress
Inactive(r) == pc[r] \in {"idle", "done", "abandoned", "raised"}

(***************************************************************************)
(* The run loop.                                                           *)
(***************************************************************************)
\* run / stream_events from the head of `while context.is_running:` to the
\* next suspension point, with `c` the context and `msgs` the history there
Gate(rid, m, c, msgs, t) ==
    LET g == next_step(c)
    IN  IF ~is_running(c)
        THEN \* the loop ends: run returns None, the generator finishes
             /\ pc' = [pc EXCEPT ![rid] = "done"]
             /\ context' = [context EXCEPT ![rid] = c]
             /\ turn' = [turn EXCEPT ![rid] = t]
             /\ UNCHANGED <<response, events, sent, chunks, parser>>
        ELSE IF g.ret
        THEN \* _execute_step / _stream_step_execution up to the model call
             /\ pc' = [pc EXCEPT ![rid] = "await_model"]
             /\ context' = [context EXCEPT ![rid] = g.context]
             /\ sent' = [sent EXCEPT ![rid] = _prepare_messages(msgs)]
             /\ turn' = [turn EXCEPT ![rid] = <<>>]
             /\ chunks' = [chunks EXCEPT ![rid] = <<>>]
             /\ parser' = [parser EXCEPT ![rid] = StreamingTextParser]
             /\ UNCHANGED <<response, events>>
        ELSE \* max steps reached
             /\ context' = [context EXCEPT ![rid] = g.context]
             /\ IF m = "run"
                THEN /\ pc' = [pc EXCEPT ![rid] = "done"]
                     /\ response' =
                            [response EXCEPT ![rid] =
                                AgentResponse(<<>>, STATUS_MAX_STEPS_REACHED,
                                              g.context.total_steps, max_steps)]
                     /\ UNCHANGED events
                ELSE /\ pc' = [pc EXCEPT ![rid] = "yield_max"]
                     /\ events' =
                            [events EXCEPT ![rid] =
                                Append(@, Event(EVENT_MAX_STEPS_REACHED,
                                                <<"M">>))]
                     /\ UNCHANGED response
             /\ turn' = [turn EXCEPT ![rid] = t]
             /\ UNCHANGED <<sent, chunks, parser>>

\* run, once _execute_step has returned `ret`: `if not context.is_running:
\* return AgentResponse(...)`, else round the loop
AfterStep(rid, c, msgs, t, ret) ==
    IF ~is_running(c)
    THEN /\ pc' = [pc EXCEPT ![rid] = "done"]
         /\ context' = [context EXCEPT ![rid] = c]
         /\ response' =
                [response EXCEPT ![rid] =
                    AgentResponse(ret, SUCCESS, c.total_steps, max_steps)]
         /\ turn' = [turn EXCEPT ![rid] = t]
         /\ UNCHANGED <<events, sent, chunks, parser>>
    ELSE Gate(rid, "run", c, msgs, t)

\* run(query) (m = "run") or stream_events(query) (m = "stream") from its
\* first line to its first suspension point
Begin(rid, m, query) ==
    /\ pc[rid] = "idle"
    /\ \A r \in Runs : r < rid => pc[r] # "idle"
    /\ rid = 1 \/ rid * max_steps <= MaxTurns
    /\ mode' = [mode EXCEPT ![rid] = m]
    /\ clock' = clock + 1
    /\ overlapped' = (overlapped \/ \E r \in Runs : ~Inactive(r))
    /\ LET msgs == _initialize_conversation(messages, query)
       IN  /\ messages' = msgs
           /\ last_system' = build_system_prompt
           /\ appended' = Append(appended, UserMessage(query))
           /\ authors' = Append(authors, rid)
           /\ Gate(rid, m, start(ExecutionContext(max_steps)), msgs, <<>>)
    /\ UNCHANGED <<max_steps, max_history, runtime, model_response, rest,
                   pending, answers, outcomes>>

\* the caller invokes run(query) or starts to consume stream_events(query);
\* the caller makes one invocation at a time
Invoke(rid, m, query) ==
    /\ \A r \in Runs : Inactive(r)
    /\ Begin(rid, m, query)

(***************************************************************************)
(* The step engine.                                                        *)
(***************************************************************************)
\* an except clause too narrow for what the sandbox raises
except_too_narrow(outcome) == FALSE

\* `except Exception as e` around runtime.execute: whether the handler takes
\* the way the execution ended
except_Exception(outcome) == outcome = "error"

\* _process_model_response / _process_model_response_streaming from their
\* first line to the next suspension point: the final answer (returned, or
\* yielded as FINAL_RESPONSE), or the await of runtime.execute
Classify(rid, resp) ==
    LET code_snippet == extract_python_code(resp)
    IN  /\ model_response' = [model_response EXCEPT ![rid] = resp]
        /\ authors' = Append(authors, rid)
        /\ IF code_snippet = <<>>
           THEN LET c == complete(context[rid])
                    msgs == add_message(messages, AssistantMessage(resp))
                    t == Append(turn[rid], ASSISTANT)
                IN  /\ messages' = msgs
                    /\ appended' = Append(appended, AssistantMessage(resp))
                    /\ IF mode[rid] = "run"
                       THEN AfterStep(rid, c, msgs, t, resp)
                       ELSE /\ pc' = [pc EXCEPT ![rid] = "yield_final"]
                            /\ context' = [context EXCEPT ![rid] = c]
                            /\ events' =
                                 [events EXCEPT ![rid] =
                                    Append(@, Event(FINAL_RESPONSE, resp))]
                            /\ turn' = [turn EXCEPT ![rid] = t]
                            /\ UNCHANGED <<response, sent, chunks, parser>>
           ELSE /\ messages' = add_message(messages, CodeExecutionMessage(resp))
                /\ appended' = Append(appended, CodeExecutionMessage(resp))
                /\ turn' = [turn EXCEPT ![rid] = Append(@, CODE_EXECUTION)]
                /\ pc' = [pc EXCEPT ![rid] = "await_exec"]
                /\ UNCHANGED <<context, response, events, sent, chunks,
                               parser>>

\* run: `await self.model.call(...)` returns resp
ModelReturns(rid, resp) ==
    /\ pc[rid] = "await_model"
    /\ mode[rid] = "run"
    /\ answers' = [answers EXCEPT ![rid] = Append(@, resp)]
    /\ Classify(rid, resp)
    /\ UNCHANGED <<overlapped, max_steps, max_history, runtime, clock, mode,
                   rest, pending, last_system, outcomes>>

\* the outcome yielded first and stored only when the generator is resumed
StoreOutcome_after_yield(msgs, prompt) == msgs

\* the history once the execution's outcome is stored: add_message(
\* ExecutionResultMessage(...)), which both paths do before they return or
\* yield the outcome
StoreOutcome(msgs, prompt) == add_message(msgs, ExecutionResultMessage(prompt))

\* `await self.runtime.execute(code_snippet)` ends: the result or the error is
\* stored; run goes round its loop, stream_events yields the outcome
ExecReturns(rid, outcome) ==
    /\ pc[rid] = "await_exec"
    /\ outcome = "changed" => runtime < MaxRuntimeChanges
    /\ runtime' = IF outcome = "changed" THEN runtime + 1 ELSE runtime
    /\ outcomes' = [outcomes EXCEPT ![rid] = Append(@, outcome)]
    /\ LET code_snippet == extract_python_code(model_response[rid])
           raised == outcome \notin {"ok", "changed"}
           error_msg == error_text(code_snippet)
           prompt == IF raised
                     THEN RetryPrompt(error_msg)
                     ELSE NEXT_STEP_PROMPT(execution_result(code_snippet))
           msgs == StoreOutcome(messages, prompt)
           t == Append(turn[rid], EXECUTION_RESULT)
       IN  IF raised /\ ~except_Exception(outcome)
           THEN \* the exception leaves run / stream_events
                /\ pc' = [pc EXCEPT ![rid] = "raised"]
                /\ UNCHANGED <<messages, appended, authors, turn, context,
                               response, events, sent, chunks, parser>>
           ELSE /\ messages' = msgs
                /\ appended' = Append(appended, ExecutionResultMessage(prompt))
                /\ authors' = Append(authors, rid)
                /\ IF mode[rid] = "run"
                   THEN AfterStep(rid, context[rid], msgs, t,
                                  IF raised
                                  THEN ExecutionFailed(error_msg)
                                  ELSE model_response[rid])
                   ELSE /\ pc' = [pc EXCEPT ![rid] = "yield_outcome"]
                        /\ events' =
                             [events EXCEPT ![rid] =
                                Append(@,
                                    IF raised
                                    THEN Event(EXECUTION_ERROR, error_msg)
                                    ELSE Event(EVENT_EXECUTION_RESULT,
                                               execution_result(code_snippet)))]
                        /\ turn' = [turn EXCEPT ![rid] = t]
                        /\ UNCHANGED <<context, response, sent, chunks,
                                       parser>>
    /\ UNCHANGED <<overlapped, max_steps, max_history, clock, mode,
                   model_response, rest, pending, last_system, answers>>

(***************************************************************************)
(* The streaming step.                                                     *)
(***************************************************************************)
\* the model starts to stream resp in answer to model.stream(...)
ModelStreams(rid, resp) ==
    /\ pc[rid] = "await_model"
    /\ mode[rid] = "stream"
    /\ pc' = [pc EXCEPT ![rid] = "await_chunk"]
    /\ rest' = [rest EXCEPT ![rid] = resp]
    /\ answers' = [answers EXCEPT ![rid] = Append(@, resp)]
    /\ UNCHANGED <<overlapped, max_steps, max_history, messages, runtime,
                   clock, mode, context, response, events, sent,
                   model_response, chunks, parser, pending, appended, authors,
                   last_system, turn, outcomes>>

\* _stream_step_execution that parses the chunks and yields no segment
YieldSegments_none(rid, segs) ==
    /\ pc' = [pc EXCEPT ![rid] = "await_chunk"]
    /\ pending' = [pending EXCEPT ![rid] = <<>>]
    /\ UNCHANGED events

\* _stream_step_execution: the segments segs are yielded one by one; with
\* none left the generator awaits the next chunk
YieldSegments(rid, segs) ==
    IF segs = <<>>
    THEN /\ pc' = [pc EXCEPT ![rid] = "await_chunk"]
         /\ pending' = [pending EXCEPT ![rid] = <<>>]
         /\ UNCHANGED events
    ELSE /\ pc' = [pc EXCEPT ![rid] = "yield_segment"]
         /\ pending' = [pending EXCEPT ![rid] = Tail(segs)]
         /\ events' = [events EXCEPT ![rid] =
                          Append(@, Event(Head(segs).type, Head(segs).content))]

\* the next chunk, of n characters, arrives
ChunkArrives(rid, n) ==
    /\ pc[rid] = "await_chunk"
    /\ n <= Len(rest[rid])
    /\ LET chunk == SubSeq(rest[rid], 1, n)
           parsed == process_chunk(parser[rid], chunk)
       IN  /\ rest' = [rest EXCEPT ![rid] = SubSeq(@, n + 1, Len(@))]
           /\ chunks' = [chunks EXCEPT ![rid] = @ \o chunk]
           /\ parser' = [parser EXCEPT ![rid] = parsed.parser]
           /\ YieldSegments(rid, parsed.segments)
    /\ UNCHANGED <<overlapped, max_steps, max_history, messages, runtime,
                   clock, mode, context, response, sent, model_response,
                   appended, authors, last_system, turn, answers, outcomes>>

\* the model's stream ends: `model_response = "".join(chunks)` is processed
StreamEnds(rid) ==
    /\ pc[rid] = "await_chunk"
    /\ rest[rid] = <<>>
    /\ Classify(rid, chunks[rid])
    /\ UNCHANGED <<overlapped, max_steps, max_history, runtime, clock, mode,
                   rest, pending, last_system, answers, outcomes>>

\* the consumer asks for the next event: the generator goes on after its
\* `yield`
Resume(rid) ==
    /\ pc[rid] \in {"yield_segment", "yield_final", "yield_outcome",
                    "yield_max"}
    /\ IF pc[rid] = "yield_max" \/ ~is_running(context[rid])
       THEN \* `return`
            /\ pc' = [pc EXCEPT ![rid] = "done"]
            /\ UNCHANGED <<context, response, events, sent, turn, chunks,
                           parser, pending>>
       ELSE IF pc[rid] = "yield_segment"
       THEN /\ YieldSegments(rid, pending[rid])
            /\ UNCHANGED <<context, response, sent, turn, chunks, parser>>
       ELSE \* the step's generator is exhausted: round the loop
            /\ Gate(rid, "stream", context[rid], messages, turn[rid])
            /\ UNCHANGED pending
    /\ UNCHANGED <<overlapped, max_steps, max_history, messages, runtime,
                   clock, mode, model_response, rest, appended, authors,
                   last_system, answers, outcomes>>

\* the consumer stops consuming: the suspended generator is never resumed
Abandon(rid) ==
    /\ pc[rid] \in {"yield_segment", "yield_final", "yield_outcome",
                    "yield_max"}
    /\ pc' = [pc EXCEPT ![rid] = "abandoned"]
    /\ UNCHANGED <<overlapped, max_steps, max_history, messages, runtime,
                   clock, mode, context, response, events, sent,
                   model_response, rest, chunks, parser, pending, appended,
                   authors, last_system, turn, answers, outcomes>>

Next ==
    \/ \E rid \in Runs, m \in {"run", "stream"} : Invoke(rid, m, Query(rid))
    \/ \E rid \in Runs, resp \in Responses : ModelReturns(rid, resp)
    \/ \E rid \in Runs, outcome \in Outcomes : ExecReturns(rid, outcome)
    \/ \E rid \in Runs, resp \in Responses : ModelStreams(rid, resp)
    \/ \E rid \in Runs, n \in 1..MaxChunk : ChunkArrives(rid, n)
    \/ \E rid \in Runs : StreamEnds(rid)
    \/ \E rid \in Runs : Resume(rid)
    \/ \E rid \in Runs : Abandon(rid)

Spec == Init /\ [][Next]_vars

\* every await returns and the consumer of a stream either asks for the next
\* event or stops: no step that is possible is put off for ever
Step(rid) ==
    \/ \E resp \in Responses : ModelReturns(rid, resp)
    \/ \E outcome \in Outcomes : ExecReturns(rid, outcome)
    \/ \E resp \in Responses : ModelStreams(rid, resp)
    \/ \E n \in 1..MaxChunk : ChunkArrives(rid, n)
    \/ StreamEnds(rid)
    \/ Resume(rid)
    \/ Abandon(rid)

FairSpec == Spec /\ \A rid \in Runs : WF_vars(Step(rid))

\* the agent when its caller does not wait for an invocation to end before it
\* makes the next: run / stream_events take no lock, so a second invocation
\* runs between the suspension points of the first.  The caller explored
\* overlaps calls of run only; stream_events it consumes one at a time.
MayOverlap(m) ==
    \/ \A r \in Runs : Inactive(r)
    \/ m = "run" /\ \A r \in Runs : ~Inactive(r) => mode[r] = "run"

ConcurrentNext ==
    \/ \E rid \in Runs, m \in {"run", "stream"} :
           MayOverlap(m) /\ Begin(rid, m, Query(rid))
    \/ \E rid \in Runs : Step(rid)

ConcurrentSpec == Init /\ [][ConcurrentNext]_vars

(***************************************************************************)
(* Vocabulary of the properties.                                           *)
(***************************************************************************)
\* the responses of Responses that hold no code: no fenced block, a block with
\* nothing but white space in it, or a block that is never closed
CodeFree ==
    { <<"a">>, <<"~", "~", "p", " ", "~", "~">>, <<"~", "~", "p", "c">> }

Started == last_system # <<>>

Returned(rid) == mode[rid] = "run" /\ pc[rid] = "done"

Consumed(rid) == mode[rid] = "stream" /\ pc[rid] = "done"

NeverCodeFree(rid) == \A k \in 1..Len(answers[rid]) : answers[rid][k] \notin CodeFree

Succeeded(outcome) == outcome \in {"ok", "changed"}

\* the sandbox raised on the invocation's first execution and succeeded on
\* its second, the retry, and nothing has been executed since
FailedThenSucceeded(rid) ==
    /\ Len(outcomes[rid]) = 2
    /\ outcomes[rid][1] = "error"
    /\ Succeeded(outcomes[rid][2])

\* every execution of the invocation failed
AllFailed(rid) == \A k \in 1..Len(outcomes[rid]) : outcomes[rid][k] = "error"

\* the turn in which the invocation first got a code-free response, 0 when it
\* never did
FirstCodeFree(rid) ==
    LET ks == {k \in 1..Len(answers[rid]) : answers[rid][k] \in CodeFree}
    IN  IF ks = {} THEN 0 ELSE CHOOSE k \in ks : \A j \in ks : k <= j

LastEvent(rid) == events[rid][Len(events[rid])]

TerminalEvents == {FINAL_RESPONSE, EVENT_MAX_STEPS_REACHED}

Yielding(rid) ==
    pc[rid] \in {"yield_segment", "yield_final", "yield_outcome", "yield_max"}

(***************************************************************************)
(* C1.  For every max_history = N >= 1, once an invocation has written the *)
(* system message, the stored history never holds more than N messages and *)
(* its element 0 is the system message written last.                       *)
(***************************************************************************)
C1_HistoryBounded ==
    Started =>
        /\ Len(messages) <= max_history
        /\ messages[1] = SystemMessage(last_system)

(***************************************************************************)
(* C2.  For every step budget M, a run in which the model never gives a    *)
(* code-free response, whether its executions succeed or fail, is over     *)
(* once its M-th execution has returned, after exactly M turns, with       *)
(* status MAX_STEPS_REACHED and steps_taken = M.                           *)
(***************************************************************************)
C2_NeverCodeFreeHitsBudget ==
    \A rid \in Runs :
        (mode[rid] = "run" /\ NeverCodeFree(rid)) =>
            /\ Len(answers[rid]) <= max_steps
            /\ Len(outcomes[rid]) = max_steps => pc[rid] = "done"
            /\ pc[rid] = "done" =>
                /\ response[rid].status = STATUS_MAX_STEPS_REACHED
                /\ response[rid].steps_taken = max_steps
                /\ Len(answers[rid]) = max_steps
                /\ Len(outcomes[rid]) = max_steps

\* a run of the default budget in which every response held code, one
\* execution failed and one succeeded, has returned
C2_Witness ==
    \E rid \in Runs :
        /\ Returned(rid)
        /\ NeverCodeFree(rid)
        /\ max_steps = DefaultMaxSteps
        /\ \E i, j \in 1..Len(outcomes[rid]) :
               outcomes[rid][i] = "error" /\ outcomes[rid][j] = "ok"

(***************************************************************************)
(* C3.  A run whose first response holds no fenced code is over after      *)
(* exactly one turn, with status SUCCESS and steps_taken = 1, whatever the *)
(* step budget.                                                            *)
(***************************************************************************)
C3_FirstAnswerFinal ==
    \A rid \in Runs :
        (mode[rid] = "run" /\ answers[rid] # <<>>
            /\ answers[rid][1] \in CodeFree) =>
            /\ pc[rid] = "done"
            /\ response[rid].status = SUCCESS
            /\ response[rid].steps_taken = 1
            /\ response[rid].content = answers[rid][1]
            /\ Len(answers[rid]) = 1
            /\ outcomes[rid] = <<>>

\* a run of a budget above one has returned after a first response of prose
C3_Witness ==
    \E rid \in Runs :
        /\ Returned(rid)
        /\ max_steps > 1
        /\ answers[rid] = << <<"a">> >>

(***************************************************************************)
(* C4, as stated.  In a run with max_steps = 5 in which the sandbox raises *)
(* on the first code execution and succeeds on the retry, the run ends     *)
(* with status SUCCESS and steps_taken = 2.                                *)
(***************************************************************************)
C4_EndsAfterTwoSteps ==
    \A rid \in Runs :
        (Returned(rid) /\ max_steps = DefaultMaxSteps
            /\ FailedThenSucceeded(rid)) =>
            /\ response[rid].status = SUCCESS
            /\ response[rid].steps_taken = 2

(***************************************************************************)
(* C4, amended.  In such a run the retry's success does not end the run:   *)
(* the model is called a third time, and the run ends with status SUCCESS  *)
(* and steps_taken = 3 when that third response is code-free.              *)
(***************************************************************************)
C4_EndsAfterThreeSteps ==
    \A rid \in Runs :
        (mode[rid] = "run" /\ max_steps = DefaultMaxSteps
            /\ FailedThenSucceeded(rid)) =>
            /\ Len(answers[rid]) = 2 =>
                /\ pc[rid] = "await_model"
                /\ is_running(context[rid])
                /\ context[rid].total_steps = 3
            /\ (Len(answers[rid]) = 3 /\ answers[rid][3] \in CodeFree) =>
                pc[rid] = "done"
            /\ pc[rid] = "done" =>
                /\ Len(answers[rid]) = 3
                /\ answers[rid][3] \in CodeFree
                /\ response[rid].status = SUCCESS
                /\ response[rid].steps_taken = 3
                /\ response[rid].content = answers[rid][3]

\* a run of budget 5 has returned after a failed execution, a successful
\* retry and a final answer
C4_Witness ==
    \E rid \in Runs :
        /\ Returned(rid)
        /\ max_steps = DefaultMaxSteps
        /\ outcomes[rid] = <<"error", "ok">>
        /\ response[rid].status = SUCCESS

(***************************************************************************)
(* C5.  A failing sandbox execution never ends an invocation by raising:   *)
(* a run that is over has returned an AgentResponse with status SUCCESS or *)
(* MAX_STEPS_REACHED, a stream that is over has yielded a terminal event   *)
(* last, and an invocation all of whose executions failed until the budget *)
(* was used up ends with MAX_STEPS_REACHED.                                *)
(***************************************************************************)
C5_FailuresNeverRaise ==
    \A rid \in Runs :
        /\ pc[rid] # "raised"
        /\ Returned(rid) =>
               response[rid].status \in {SUCCESS, STATUS_MAX_STEPS_REACHED}
        /\ Consumed(rid) =>
               events[rid] # <<>> /\ LastEvent(rid).type \in TerminalEvents
        /\ (AllFailed(rid) /\ Len(outcomes[rid]) = max_steps) =>
               IF mode[rid] = "run"
               THEN /\ pc[rid] = "done"
                    /\ response[rid].status = STATUS_MAX_STEPS_REACHED
               ELSE /\ pc[rid] \in {"yield_outcome", "yield_max", "done",
                                    "abandoned"}
                    /\ pc[rid] \in {"yield_max", "done"} =>
                           LastEvent(rid).type = EVENT_MAX_STEPS_REACHED

\* a stream of the default budget all of whose executions failed has been
\* consumed to its end
C5_Witness ==
    \E rid \in Runs :
        /\ Consumed(rid)
        /\ max_steps = DefaultMaxSteps
        /\ AllFailed(rid)
        /\ Len(outcomes[rid]) = max_steps

(***************************************************************************)
(* C6.  Every invocation ends, after at most max_steps turns, whatever the *)
(* model answers and however the executions end.  A run returns SUCCESS    *)
(* exactly when some turn k got a code-free response, and then             *)
(* steps_taken is the first such k; otherwise it returns MAX_STEPS_REACHED *)
(* with steps_taken = max_steps.  A consumed stream ends likewise with     *)
(* FINAL_RESPONSE or MAX_STEPS_REACHED.                                    *)
(***************************************************************************)
C6_Outcome ==
    \A rid \in Runs :
        LET k == FirstCodeFree(rid)
        IN  /\ Len(answers[rid]) <= max_steps
            /\ context[rid].total_steps <= max_steps
            /\ Returned(rid) =>
                   IF k > 0
                   THEN /\ response[rid].status = SUCCESS
                        /\ response[rid].steps_taken = k
                        /\ Len(answers[rid]) = k
                   ELSE /\ response[rid].status = STATUS_MAX_STEPS_REACHED
                        /\ response[rid].steps_taken = max_steps
                        /\ Len(answers[rid]) = max_steps
            /\ Consumed(rid) =>
                   IF k > 0
                   THEN /\ LastEvent(rid).type = FINAL_RESPONSE
                        /\ context[rid].total_steps = k
                        /\ Len(answers[rid]) = k
                   ELSE /\ LastEvent(rid).type = EVENT_MAX_STEPS_REACHED
                        /\ context[rid].total_steps = max_steps
                        /\ Len(answers[rid]) = max_steps

\* the length of the longest response
MaxResponseLen ==
    LET lens == {Len(r) : r \in Responses}
    IN  CHOOSE n \in lens : \A m \in lens : m <= n

\* a measure of what an invocation has still to do within its turn ...
Phase(rid) ==
    LET w == MaxChunk + 2
    IN  CASE pc[rid] = "await_model" -> w * (MaxResponseLen + 1) + 5
          [] pc[rid] = "await_chunk" -> w * Len(rest[rid]) + 4
          [] pc[rid] = "yield_segment" ->
                 w * Len(rest[rid]) + 5 + Len(pending[rid])
          [] pc[rid] = "await_exec" -> 3
          [] pc[rid] \in {"yield_outcome", "yield_final"} -> 2
          [] pc[rid] = "yield_max" -> 1
          [] OTHER -> 0

\* ... and over the turns its budget leaves it
Rank(rid) ==
    (max_steps - context[rid].total_steps)
        * ((MaxChunk + 2) * (MaxResponseLen + 1) + 6)
    + Phase(rid)

\* the guards of the steps of an invocation: what it waits for can happen
CanStep(rid) ==
    \/ pc[rid] = "await_model"
    \/ pc[rid] = "await_exec"
    \/ pc[rid] = "await_chunk" /\ (rest[rid] = <<>> \/ Len(rest[rid]) >= 1)
    \/ Yielding(rid)

\* CanStep is the enabling condition of Step
CanStepIsEnabled == \A rid \in Runs : CanStep(rid) <=> ENABLED Step(rid)

\* C6.  Every invocation ends with the outcome its responses determine: an
\* invocation in progress can always take a step (its pending await
\* returns, or its consumer asks for the next event or stops), and every step
\* either begins an invocation or brings one in progress nearer its end: so
\* every invocation ends
C6_Terminates ==
    /\ []C6_Outcome
    /\ [](\A rid \in Runs :
            (pc[rid] # "idle" /\ ~Inactive(rid)) =>
                Rank(rid) > 0 /\ CanStep(rid))
    /\ [][\E rid \in Runs :
            \/ (pc[rid] = "idle" /\ pc'[rid] # "idle")
            \/ (pc[rid] # "idle" /\ Rank(rid)' < Rank(rid))]_vars

\* a run has returned SUCCESS after a turn with code and a code-free second
\* response, with budget to spare
C6_Witness ==
    \E rid \in Runs :
        /\ Returned(rid)
        /\ FirstCodeFree(rid) = 2
        /\ max_steps > 2
        /\ response[rid].status = SUCCESS

(***************************************************************************)
(* C7.  The events of a stream hold a terminal event (FINAL_RESPONSE or    *)
(* MAX_STEPS_REACHED) only in the last place: nothing is yielded after it, *)
(* and a stream consumed to its end has yielded exactly one, last.  (That  *)
(* the sequence is finite is C6.)                                          *)
(***************************************************************************)
C7_OneTerminalEventLast ==
    \A rid \in Runs :
        /\ \A i \in 1..(Len(events[rid]) - 1) :
               events[rid][i].type \notin TerminalEvents
        /\ Consumed(rid) =>
               events[rid] # <<>> /\ LastEvent(rid).type \in TerminalEvents
        /\ (events[rid] # <<>> /\ LastEvent(rid).type \in TerminalEvents) =>
               pc[rid] \in {"yield_final", "yield_max", "done", "abandoned"}

\* a stream has been consumed to its end after a TEXT, a CODE and an
\* EXECUTION_RESULT event
C7_Witness ==
    \E rid \in Runs :
        /\ Consumed(rid)
        /\ Len(events[rid]) >= 4
        /\ {TEXT, CODE, EVENT_EXECUTION_RESULT}
               \subseteq {events[rid][i].type : i \in 1..Len(events[rid])}

(***************************************************************************)
(* C8.  For every capacity max_history = N, once the system message is     *)
(* written the store is the system message followed by exactly the most    *)
(* recent min(N - 1, count) of the non-system messages appended so far, in *)
(* the order of their appending.                                           *)
(***************************************************************************)
C8_KeepsMostRecent ==
    Started =>
        LET k == Min(max_history - 1, Len(appended))
        IN  /\ messages[1].role = SYSTEM
            /\ Tail(messages) =
                   SubSeq(appended, Len(appended) - k + 1, Len(appended))

(***************************************************************************)
(* C9.  What is passed to the model has the messages of the store, as many *)
(* and in the same order, with the same contents, and with the roles       *)
(* CODE_EXECUTION as ASSISTANT and EXECUTION_RESULT as USER, every other   *)
(* role unchanged; the store itself still holds the messages as they were  *)
(* appended, with their internal roles.                                    *)
(***************************************************************************)
TransportRole(role) ==
    CASE role = CODE_EXECUTION -> ASSISTANT
      [] role = EXECUTION_RESULT -> USER
      [] OTHER -> role

IsSuffix(s, t) ==
    Len(s) <= Len(t) /\ SubSeq(t, Len(t) - Len(s) + 1, Len(t)) = s

C9_SerializationMapsRolesOnly ==
    \A rid \in Runs :
        pc[rid] = "await_model" =>
            /\ Len(sent[rid]) = Len(messages)
            /\ \A i \in 1..Len(messages) :
                   /\ sent[rid][i].content = messages[i].content
                   /\ sent[rid][i].role = TransportRole(messages[i].role)
            /\ IsSuffix(Tail(messages), appended)

\* the model is called with a history that holds a CODE_EXECUTION and an
\* EXECUTION_RESULT message
C9_Witness ==
    \E rid \in Runs :
        /\ pc[rid] = "await_model"
        /\ {SYSTEM, USER, CODE_EXECUTION, EXECUTION_RESULT}
               \subseteq {messages[i].role : i \in 1..Len(messages)}
        /\ Len(sent[rid]) = Len(messages)

(***************************************************************************)
(* C10.  Wherever stream_events is suspended handing over an event, and    *)
(* so wherever its consumer may stop, the current turn has appended none   *)
(* of its messages or all of them, and no CODE_EXECUTION message of the    *)
(* history is without its EXECUTION_RESULT message right after it.         *)
(***************************************************************************)
NoOrphan(msgs) ==
    \A i \in 1..Len(msgs) :
        msgs[i].role = CODE_EXECUTION =>
            i < Len(msgs) /\ msgs[i + 1].role = EXECUTION_RESULT

LastRole(msgs) == msgs[Len(msgs)].role

C10_YieldLeavesHistoryWhole ==
    \A rid \in Runs :
        /\ Yielding(rid) =>
            /\ turn[rid] \in { <<>>, <<ASSISTANT>>,
                               <<CODE_EXECUTION, EXECUTION_RESULT>> }
            /\ NoOrphan(messages)
            /\ pc[rid] = "yield_segment" =>
                   /\ turn[rid] = <<>>
                   /\ sent[rid] = _prepare_messages(messages)
            /\ pc[rid] = "yield_final" =>
                   /\ turn[rid] = <<ASSISTANT>>
                   /\ LastRole(messages) = ASSISTANT
            /\ pc[rid] = "yield_outcome" =>
                   /\ turn[rid] = <<CODE_EXECUTION, EXECUTION_RESULT>>
                   /\ LastRole(messages) = EXECUTION_RESULT
        /\ (pc[rid] = "abandoned" /\ \A r \in Runs : Inactive(r)) =>
               NoOrphan(messages)

\* a consumer has stopped after an EXECUTION_ERROR event, the history
\* holding the turn's CODE_EXECUTION message
C10_Witness ==
    \E rid \in Runs :
        /\ pc[rid] = "abandoned"
        /\ LastEvent(rid).type = EXECUTION_ERROR
        /\ \E i \in 1..Len(messages) : messages[i].role = CODE_EXECUTION

(***************************************************************************)
(* C11.  However the model's text arrives, in chunks of one character or   *)
(* of several, with chunk boundaries inside a marker or not, the segmenter *)
(* has produced the segments, in the same order and with the same types    *)
(* and contents, that it produces when it is fed the same text as one      *)
(* chunk, and is left in the same state.                                   *)
(***************************************************************************)
OutcomeEvents ==
    {EVENT_EXECUTION_RESULT, EXECUTION_ERROR, FINAL_RESPONSE,
     EVENT_MAX_STEPS_REACHED}

\* the events the stream has yielded in its current turn: those after the
\* last outcome event
TurnEvents(rid) ==
    LET es == events[rid]
        outs == {i \in 1..Len(es) : es[i].type \in OutcomeEvents}
        last == IF outs = {} THEN 0
                ELSE CHOOSE i \in outs : \A j \in outs : j <= i
    IN  SubSeq(es, last + 1, Len(es))

AsSegments(es) == [i \in 1..Len(es) |-> Segment(es[i].type, es[i].content)]

C11_ChunkingInvariant ==
    \A rid \in Runs :
        (mode[rid] = "stream" /\ pc[rid] \in {"await_chunk", "yield_segment"})
            => LET whole == process_chunk(StreamingTextParser, chunks[rid])
               IN  /\ parser[rid] = whole.parser
                   /\ AsSegments(TurnEvents(rid)) \o pending[rid]
                          = whole.segments

\* a chunk has ended inside the closing marker of a block whose opening marker
\* was itself split over two chunks, the text before the block yielded
C11_Witness ==
    \E rid \in Runs :
        /\ pc[rid] = "await_chunk"
        /\ parser[rid].state = EXITING_CODE
        /\ parser[rid].partial = <<"~">>
        /\ chunks[rid] = <<"a", "~", "~", "p", "c", "~">>
        /\ TurnEvents(rid) = <<Event(TEXT, <<"a">>)>>

(***************************************************************************)
(* C12, as stated.  At every model call the system message passed to the   *)
(* model has been rebuilt from the state the sandbox is in at that call,   *)
(* also when code executed in an earlier turn has changed that state.      *)
(***************************************************************************)
\* the sandbox state a system prompt was built from
PromptRuntime(prompt) == prompt[2]

C12_PromptCurrentAtEveryCall ==
    \A rid \in Runs :
        pc[rid] = "await_model" =>
            /\ sent[rid][1].role = SYSTEM
            /\ PromptRuntime(sent[rid][1].content) = Str(runtime)

(***************************************************************************)
(* C12, amended.  The system message is rebuilt once per invocation, when  *)
(* run or stream_events begins, from the state the sandbox is in then; no  *)
(* turn of the invocation rebuilds it, so every model call of the          *)
(* invocation is passed the prompt built at its beginning, also after code *)
(* executed in an earlier turn has changed the sandbox.                    *)
(***************************************************************************)
\* the step begins an invocation
Begins(rid) == pc[rid] = "idle" /\ pc'[rid] # "idle"

C12_PromptBuiltOncePerInvocation ==
    /\ [](\A rid \in Runs :
            pc[rid] = "await_model" =>
                /\ sent[rid][1] = [role |-> SYSTEM, content |-> last_system]
                /\ messages[1] = SystemMessage(last_system))
    /\ [][\A rid \in Runs :
            Begins(rid) =>
                /\ messages'[1].role = SYSTEM
                /\ PromptRuntime(messages'[1].content) = Str(runtime)
                /\ last_system' = messages'[1].content]_vars
    /\ [][(Started /\ \A rid \in Runs : ~Begins(rid)) =>
                /\ messages'[1] = messages[1]
                /\ last_system' = last_system]_vars

\* the model is called, in the turn after code changed the sandbox, with the
\* prompt built before the change
C12_Witness ==
    \E rid \in Runs :
        /\ pc[rid] = "await_model"
        /\ outcomes[rid] # <<>>
        /\ outcomes[rid][Len(outcomes[rid])] = "changed"
        /\ PromptRuntime(sent[rid][1].content) # Str(runtime)

(***************************************************************************)
(* C13.  With max_history = 1 no append fails, and after every append the  *)
(* store holds the system message and nothing else.                        *)
(***************************************************************************)
C13_OnlySystemSurvives ==
    (Started /\ max_history = 1) =>
        /\ \A rid \in Runs : pc[rid] # "raised"
        /\ messages = <<SystemMessage(last_system)>>

(***************************************************************************)
(* C14.  The execution context of an invocation only moves from            *)
(* INITIALIZED to RUNNING (start), from RUNNING to RUNNING with            *)
(* steps_taken one higher (next_step below the budget), from RUNNING to    *)
(* MAX_STEPS_REACHED with steps_taken as it was (next_step at the budget)  *)
(* and from RUNNING to COMPLETED (complete); is_running holds in RUNNING   *)
(* only, and steps_taken always lies between 0 and max_steps.              *)
(***************************************************************************)
\* from c to d by start
ByStart(c, d) ==
    /\ c.state = INITIALIZED
    /\ d.state = RUNNING /\ d.total_steps = 0

\* from c to d by next_step
ByNextStep(c, d) ==
    /\ c.state = RUNNING
    /\ d.max_steps = c.max_steps
    /\ IF c.total_steps < c.max_steps
       THEN d.state = RUNNING /\ d.total_steps = c.total_steps + 1
       ELSE /\ c.total_steps = c.max_steps
            /\ d.state = MAX_STEPS_REACHED
            /\ d.total_steps = c.total_steps

\* from c to d by complete
ByComplete(c, d) ==
    /\ c.state = RUNNING
    /\ d = [c EXCEPT !.state = COMPLETED]

\* an invocation's first step creates its context, starts it and asks for
\* the first turn
ByStartThenNextStep(c, d) ==
    \E b \in {[max_steps |-> max_steps, total_steps |-> 0, state |-> RUNNING]} :
        ByStart(c, b) /\ ByNextStep(b, d)

C14_ContextTransitions ==
    /\ [](\A rid \in Runs :
            /\ context[rid].state
                   \in {INITIALIZED, RUNNING, COMPLETED, MAX_STEPS_REACHED}
            /\ 0 <= context[rid].total_steps
            /\ context[rid].total_steps <= context[rid].max_steps
            /\ is_running(context[rid]) <=> context[rid].state = RUNNING
            /\ pc[rid] # "idle" => context[rid].max_steps = max_steps)
    /\ [][\A rid \in Runs :
            \/ context'[rid] = context[rid]
            \/ Begins(rid) /\ ByStartThenNextStep(context[rid], context'[rid])
            \/ ~Begins(rid) /\ ByNextStep(context[rid], context'[rid])
            \/ ~Begins(rid) /\ ByComplete(context[rid], context'[rid])]_vars

\* one invocation has ended COMPLETED below its budget and a later one
\* MAX_STEPS_REACHED at it
C14_Witness ==
    \E r1, r2 \in Runs :
        /\ context[r1].state = COMPLETED
        /\ context[r1].total_steps < max_steps
        /\ context[r2].state = MAX_STEPS_REACHED
        /\ context[r2].total_steps = max_steps

(***************************************************************************)
(* C15.  Once the context of an invocation is COMPLETED or                 *)
(* MAX_STEPS_REACHED it never changes again, and the invocation calls the  *)
(* model no more, executes nothing more and appends nothing more to the    *)
(* history: all it still does is hand over its last event and finish.      *)
(* Every invocation, whatever the earlier ones came to, begins with a      *)
(* context of its own, started at 0 steps with the whole budget max_steps, *)
(* of which its first turn is the first step.                              *)
(***************************************************************************)
Ended(c) == c.state \in {COMPLETED, MAX_STEPS_REACHED}

C15_EndedContextStaysEnded ==
    /\ [](\A rid \in Runs :
            Ended(context[rid]) =>
                pc[rid] \in {"yield_final", "yield_max", "done", "abandoned"})
    /\ [][\A rid \in Runs :
            Ended(context[rid]) =>
                /\ context'[rid] = context[rid]
                /\ answers'[rid] = answers[rid]
                /\ outcomes'[rid] = outcomes[rid]
                /\ sent'[rid] = sent[rid]
                /\ pc'[rid] # pc[rid] =>
                       /\ pc'[rid] \in {"done", "abandoned"}
                       /\ messages' = messages
                       /\ appended' = appended]_vars
    /\ [][\A rid \in Runs :
            Begins(rid) =>
                /\ context[rid] = ExecutionContext(0)
                /\ context'[rid] =
                       [max_steps |-> max_steps, total_steps |-> 1,
                        state |-> RUNNING]
                /\ pc'[rid] = "await_model"
                /\ answers'[rid] = <<>> /\ outcomes'[rid] = <<>>]_vars

\* an invocation that used up its budget has been followed by one that had
\* the whole budget again and used it up too
C15_Witness ==
    \E r1, r2 \in Runs :
        /\ r1 < r2
        /\ pc[r1] = "done" /\ pc[r2] = "done"
        /\ context[r1].state = MAX_STEPS_REACHED
        /\ context[r2].state = MAX_STEPS_REACHED
        /\ context[r2].total_steps = max_steps
        /\ max_steps > 1

(***************************************************************************)
(* C16.  No turn without next_step granting it: the model calls an         *)
(* invocation has made are as many as the steps its context has counted,   *)
(* never more than max_steps, and each call is made in the step in which   *)
(* next_step counted one more.  A turn executes code at most once: the     *)
(* executions are as many as the responses with code, so an execution that *)
(* fails has used the one step of its turn and is not repeated in it.      *)
(***************************************************************************)
HasCode(resp) == extract_python_code(resp) # <<>>

\* the model calls the invocation has made: those answered and the one awaited
ModelCalls(rid) ==
    Len(answers[rid]) + (IF pc[rid] = "await_model" THEN 1 ELSE 0)

\* the executions it has started: those ended and the one awaited
Executions(rid) ==
    Len(outcomes[rid]) + (IF pc[rid] = "await_exec" THEN 1 ELSE 0)

\* the responses with code among those it has been given
CodeAnswers(rid) ==
    Cardinality({k \in 1..Len(answers[rid]) : HasCode(answers[rid][k])})

C16_NextStepSoleGate ==
    /\ [](\A rid \in Runs :
            /\ ModelCalls(rid) = context[rid].total_steps
            /\ ModelCalls(rid) <= max_steps
            /\ pc[rid] \in {"await_model", "await_chunk", "yield_segment",
                             "await_exec"} => is_running(context[rid])
            /\ Executions(rid) <= CodeAnswers(rid)
            /\ pc[rid] \notin {"await_chunk", "yield_segment", "abandoned"} =>
                   Executions(rid) = CodeAnswers(rid)
            /\ Executions(rid) <= context[rid].total_steps)
    /\ [][\A rid \in Runs :
            /\ (pc'[rid] = "await_model" /\ pc[rid] # "await_model") =>
                   /\ context'[rid].total_steps = context[rid].total_steps + 1
                   /\ is_running(context'[rid])
            /\ outcomes'[rid] # outcomes[rid] =>
                   /\ pc[rid] = "await_exec"
                   /\ pc'[rid] \in {"await_model", "yield_outcome", "done"}
                   /\ Len(outcomes'[rid]) = Len(outcomes[rid]) + 1]_vars

\* a run calls the model for its second turn after the execution of its
\* first turn failed
C16_Witness ==
    \E rid \in Runs :
        /\ mode[rid] = "run"
        /\ pc[rid] = "await_model"
        /\ outcomes[rid] = <<"error">>
        /\ Len(answers[rid]) = 1
        /\ context[rid].total_steps = 2

(***************************************************************************)
(* C17.  A turn whose response holds code appends two messages and no      *)
(* more: first a CODE_EXECUTION message with the whole response as the     *)
(* model gave it, then, when the execution has ended, an EXECUTION_RESULT  *)
(* message, which is the next-step prompt with the result if the execution *)
(* succeeded and the retry prompt with the error text in it if it failed.  *)
(* Either way the turn leaves the context RUNNING and the loop goes round: *)
(* the next turn begins, unless the budget is used up.                     *)
(***************************************************************************)
LastOf(s) == s[Len(s)]

Contains(s, t) == \E i \in 1..Len(s) : OccursAt(s, t, i)

\* the step in which the invocation has its response whole and classifies it
Classifies(rid) ==
    /\ \/ mode[rid] = "run" /\ pc[rid] = "await_model"
       \/ mode[rid] = "stream" /\ pc[rid] = "await_chunk" /\ rest[rid] = <<>>
    /\ pc'[rid] # pc[rid]

\* the step in which the invocation's execution ends
ExecutionEnds(rid) == pc[rid] = "await_exec" /\ pc'[rid] # pc[rid]

EmptyBlock == <<"~", "~", "p", " ", "~", "~">>

C18_CodeFreeTurnIsFinal ==
    /\ [](\A rid \in Runs :
            context[rid].state = COMPLETED =>
                /\ turn[rid] = <<ASSISTANT>>
                /\ LastOf(answers[rid]) \in CodeFree
                /\ pc[rid] \in {"yield_final", "done", "abandoned"}
                /\ Returned(rid) =>
                       /\ response[rid].status = SUCCESS
                       /\ response[rid].content = LastOf(answers[rid])
                /\ mode[rid] = "stream" =>
                       LastOf(events[rid]) =
                           Event(FINAL_RESPONSE, LastOf(answers[rid])))
    /\ [][\A rid \in Runs :
            (Classifies(rid) /\ LastOf(answers'[rid]) \in CodeFree) =>
                LET resp == LastOf(answers'[rid])
                IN  /\ appended' = Append(appended, AssistantMessage(resp))
                    /\ LastOf(messages') = AssistantMessage(resp)
                    /\ context'[rid] =
                           [context[rid] EXCEPT !.state = COMPLETED]
                    /\ outcomes' = outcomes
                    /\ runtime' = runtime
                    /\ pc'[rid] = IF mode[rid] = "run"
                                  THEN "done" ELSE "yield_final"]_vars
    /\ [][\A rid \in Runs :
            context[rid].state = COMPLETED =>
                /\ pc'[rid] # pc[rid] => appended' = appended
                /\ outcomes'[rid] = outcomes[rid]]_vars

\* a stream has yielded FINAL_RESPONSE for a response whose only fenced
\* block is empty, after a turn with code
C18_Witness ==
    \E rid \in Runs :
        /\ pc[rid] = "yield_final"
        /\ Len(answers[rid]) = 2
        /\ LastOf(answers[rid]) = EmptyBlock
        /\ LastOf(events[rid]) = Event(FINAL_RESPONSE, EmptyBlock)
        /\ LastOf(messages) = AssistantMessage(EmptyBlock)

(***************************************************************************)
(* C19.  What an invocation that has run to its end leaves behind is       *)
(* determined by the history it began with, the responses of the model and *)
(* the outcomes of the executions, in the same way for run and for a       *)
(* stream_events consumed to its end: as many turns as responses, as many  *)
(* executions as responses with code, the same messages appended, and so   *)
(* the same store.  It ends with SUCCESS (run) or a last FINAL_RESPONSE    *)
(* event (stream) when its last response is code-free, and with            *)
(* MAX_STEPS_REACHED as status or last event otherwise.                    *)
(***************************************************************************)
\* the prompt stored for an execution of code that ended with outcome
OutcomePrompt(code, outcome) ==
    IF Succeeded(outcome)
    THEN NEXT_STEP_PROMPT(execution_result(code))
    ELSE RetryPrompt(error_text(code))

\* the messages that the turns with the responses as and the outcomes os
\* append, whichever loop runs them
RECURSIVE Transcript(_, _)
Transcript(as, os) ==
    IF as = <<>>
    THEN <<>>
    ELSE IF HasCode(Head(as))
    THEN IF os = <<>>
         THEN <<CodeExecutionMessage(Head(as))>>
         ELSE <<CodeExecutionMessage(Head(as)),
                ExecutionResultMessage(
                    OutcomePrompt(extract_python_code(Head(as)), Head(os)))>>
              \o Transcript(Tail(as), Tail(os))
    ELSE <<AssistantMessage(Head(as))>> \o Transcript(Tail(as), os)

\* the messages appended by the invocations from r on that have begun
RECURSIVE Script(_)
Script(r) ==
    IF r > MaxRuns \/ pc[r] = "idle"
    THEN <<>>
    ELSE <<UserMessage(Query(r))>>
         \o Transcript(answers[r], outcomes[r]) \o Script(r + 1)

\* the store after the appends adds to the store base
RECURSIVE StoreAfter(_, _)
StoreAfter(base, adds) ==
    IF adds = <<>>
    THEN base
    ELSE StoreAfter(add_message(base, Head(adds)), Tail(adds))

AllDone == \A rid \in Runs : pc[rid] \in {"idle", "done"}

C19_SameInEitherMode ==
    (Started /\ AllDone) =>
        /\ \E h \in InitialHistories :
               /\ appended = h \o Script(1)
               /\ messages =
                      StoreAfter(<<SystemMessage(last_system)>> \o h, Script(1))
        /\ \A rid \in Runs :
               pc[rid] = "done" =>
                   LET final == ~HasCode(LastOf(answers[rid]))
                   IN  /\ context[rid].total_steps = Len(answers[rid])
                       /\ Len(outcomes[rid]) = CodeAnswers(rid)
                       /\ final \/ Len(answers[rid]) = max_steps
                       /\ context[rid].state =
                              IF final THEN COMPLETED ELSE MAX_STEPS_REACHED
                       /\ IF mode[rid] = "run"
                          THEN response[rid].status =
                                   IF final THEN SUCCESS
                                   ELSE STATUS_MAX_STEPS_REACHED
                          ELSE LastOf(events[rid]).type =
                                   IF final THEN FINAL_RESPONSE
                                   ELSE EVENT_MAX_STEPS_REACHED

\* a run and a stream consumed to its end, given the same responses and
\* outcomes (code that fails, code that succeeds), have both ended
C19_Witness ==
    \E r1, r2 \in Runs :
        /\ AllDone
        /\ mode[r1] = "run" /\ mode[r2] = "stream"
        /\ pc[r1] = "done" /\ pc[r2] = "done"
        /\ answers[r1] = answers[r2]
        /\ outcomes[r1] = outcomes[r2]
        /\ outcomes[r1] = <<"error", "ok">>
        /\ response[r1].status = STATUS_MAX_STEPS_REACHED
        /\ LastOf(events[r2]).type = EVENT_MAX_STEPS_REACHED

(***************************************************************************)
(* C20.  The events of a stream come turn by turn, in the order of the     *)
(* turns; those of a turn are the TEXT and CODE events of the segments of  *)
(* its response, in their order, and after all of them one outcome event:  *)
(* FINAL_RESPONSE for a response without code, EXECUTION_RESULT or         *)
(* EXECUTION_ERROR for the execution of its code.  As long as the model's  *)
(* stream of a turn has not ended, nothing is executed and the history is  *)
(* as it was passed to the model.                                          *)
(***************************************************************************)
\* the event that ends a turn whose code was executed with outcome
OutcomeEvent(code, outcome) ==
    IF Succeeded(outcome)
    THEN Event(EVENT_EXECUTION_RESULT, execution_result(code))
    ELSE Event(EXECUTION_ERROR, error_text(code))

\* the TEXT and CODE events of a response
SegmentEvents(resp) ==
    LET segs == process_chunk(StreamingTextParser, resp).segments
    IN  [i \in 1..Len(segs) |-> Event(segs[i].type, segs[i].content)]

\* the events of the turns with the responses as, of which the executions
\* os have ended
RECURSIVE TurnByTurn(_, _)
TurnByTurn(as, os) ==
    IF as = <<>>
    THEN <<>>
    ELSE SegmentEvents(Head(as)) \o
         (IF HasCode(Head(as))
          THEN IF os = <<>>
               THEN <<>>
               ELSE <<OutcomeEvent(extract_python_code(Head(as)), Head(os))>>
                    \o TurnByTurn(Tail(as), Tail(os))
          ELSE <<Event(FINAL_RESPONSE, Head(as))>>
               \o TurnByTurn(Tail(as), os))

\* the model's stream of the invocation's current turn has not ended
Streaming(rid) ==
    /\ mode[rid] = "stream"
    /\ \/ pc[rid] = "yield_segment"
       \/ pc[rid] = "await_chunk" /\ rest[rid] # <<>>

AllButLast(s) == SubSeq(s, 1, Len(s) - 1)

C20_EventsTurnByTurn ==
    /\ [](\A rid \in Runs :
            mode[rid] = "stream" =>
                LET all == TurnByTurn(answers[rid], outcomes[rid])
                    max == Event(EVENT_MAX_STEPS_REACHED, <<"M">>)
                IN  /\ IsPrefix(events[rid], all \o <<max>>)
                    /\ pc[rid] \in {"await_model", "await_exec",
                                     "yield_outcome", "yield_final"} =>
                           events[rid] = all
                    /\ pc[rid] \in {"await_chunk", "yield_segment"} =>
                           /\ Len(events[rid]) >=
                                  Len(TurnByTurn(AllButLast(answers[rid]),
                                                 outcomes[rid]))
                           /\ AsSegments(TurnEvents(rid)) \o pending[rid] =
                                  process_chunk(StreamingTextParser,
                                                chunks[rid]).segments
                    /\ pc[rid] = "await_chunk" /\ rest[rid] = <<>> =>
                           TurnEvents(rid) = SegmentEvents(LastOf(answers[rid]))
                    /\ pc[rid] \in {"yield_max", "done"} =>
                           events[rid] =
                               IF HasCode(LastOf(answers[rid]))
                               THEN all \o <<max>> ELSE all
                    /\ Streaming(rid) =>
                           /\ turn[rid] = <<>>
                           /\ sent[rid] = _prepare_messages(messages)
                           /\ Executions(rid) = Len(outcomes[rid])
                           /\ Len(outcomes[rid]) =
                                  Cardinality(
                                      {k \in 1..(Len(answers[rid]) - 1) :
                                          HasCode(answers[rid][k])}))
    /\ [][\A rid \in Runs :
            Streaming(rid) =>
                /\ messages' = messages
                /\ appended' = appended
                /\ outcomes' = outcomes
                /\ runtime' = runtime
                /\ pc'[rid] # "await_exec"]_vars

\* a stream has yielded the TEXT and the CODE event of its first turn and
\* the outcome of the execution, and a CODE event of its second turn
C20_Witness ==
    \E rid \in Runs :
        /\ pc[rid] = "yield_segment"
        /\ Len(answers[rid]) = 2
        /\ HasCode(answers[rid][1])
        /\ Len(events[rid]) = 5
        /\ events[rid][1].type = TEXT
        /\ events[rid][2].type = CODE
        /\ events[rid][3].type = EXECUTION_ERROR
        /\ events[rid][4].type = TEXT
        /\ events[rid][5].type = CODE

(***************************************************************************)
(* C21.  When the model's stream of a turn has ended, what the segmenter   *)
(* still holds (text outside a block, a partial marker, code of a block    *)
(* that was never closed) has been handed over as a TEXT or CODE event, so *)
(* that the TEXT and CODE events of the turn hold all of the response but  *)
(* the markers.                                                            *)
(***************************************************************************)
\* the contents of the events es, one after the other
RECURSIVE ContentsOf(_)
ContentsOf(es) ==
    IF es = <<>> THEN <<>> ELSE Head(es).content \o ContentsOf(Tail(es))

\* the TEXT and CODE events of the last turn among the events es
SegmentEventsOfLastTurn(es) ==
    LET body == IF es # <<>> /\ LastOf(es).type \in OutcomeEvents
                THEN AllButLast(es) ELSE es
        outs == {i \in 1..Len(body) : body[i].type \in OutcomeEvents}
        last == IF outs = {} THEN 0
                ELSE CHOOSE i \in outs : \A j \in outs : j <= i
    IN  SubSeq(body, last + 1, Len(body))

\* the response without its markers: what the segmenter makes segments of and
\* what it is left holding at the end
Unmarked(resp) ==
    LET fed == process_chunk(StreamingTextParser, resp)
    IN  ContentsOf(fed.segments) \o fed.parser.buffer \o fed.parser.partial

C21_NothingDropped ==
    \A rid \in Runs :
        (mode[rid] = "stream"
            /\ pc[rid] \in {"await_exec", "yield_outcome", "yield_final"}) =>
            ContentsOf(SegmentEventsOfLastTurn(events[rid]))
                = Unmarked(LastOf(answers[rid]))

(***************************************************************************)
(* C22.  An invocation first rebuilds the system message and writes it,    *)
(* and only then appends its USER query, before any other message of its   *)
(* own.  Where index 0 holds a system message the new one takes its place, *)
(* the store as long as before and every other message as it was; where it *)
(* does not, the new one is put in front.  Nothing else is ever replaced   *)
(* in place: every other change of the store is an append at the end,      *)
(* with older messages after index 0 trimmed away.                         *)
(***************************************************************************)
\* the store msgs with the system message prompt written
Rewritten(msgs, prompt) ==
    IF msgs # <<>> /\ msgs[1].role = SYSTEM
    THEN [i \in 1..Len(msgs) |->
             IF i = 1 THEN SystemMessage(prompt) ELSE msgs[i]]
    ELSE <<SystemMessage(prompt)>> \o msgs

C22_SystemMessageWrittenFirst ==
    /\ [](Started => messages # <<>> /\ messages[1].role = SYSTEM)
    /\ [][\A rid \in Runs :
            Begins(rid) =>
                LET prompt == build_system_prompt
                    written == Rewritten(messages, prompt)
                IN  /\ Started => Len(written) = Len(messages)
                    /\ messages' = add_message(written, UserMessage(Query(rid)))
                    /\ messages'[1] = SystemMessage(prompt)
                    /\ appended' = Append(appended, UserMessage(Query(rid)))
                    /\ LastOf(messages') = UserMessage(Query(rid))]_vars
    /\ [][(\A rid \in Runs : ~Begins(rid)) =>
            \/ messages' = messages
            \/ /\ appended' = Append(appended, LastOf(appended'))
               /\ messages'[1] = messages[1]
               /\ LastOf(messages') = LastOf(appended')
               /\ IsSuffix(Tail(messages'),
                           Append(Tail(messages), LastOf(appended')))]_vars

\* a second invocation has begun: the system message built from the changed
\* sandbox stands in the place of the first invocation's, whose messages
\* follow it
C22_Witness ==
    \E rid \in Runs :
        /\ rid > 1
        /\ pc[rid] = "await_model"
        /\ answers[rid] = <<>>
        /\ messages[1] = SystemMessage(<<"S", "1", "@", "1">>)
        /\ Len(messages) >= 4
        /\ messages[2] = UserMessage(Query(1))
        /\ LastOf(messages) = UserMessage(Query(rid))

(***************************************************************************)
(* C23.  Invocations that overlap on one agent interleave their appends:   *)
(* the CODE_EXECUTION message of one can be followed at once by a message  *)
(* of the other, its own EXECUTION_RESULT coming later.  As long as the    *)
(* caller has made its invocations one at a time, every CODE_EXECUTION     *)
(* message appended is the last one, its execution not yet ended, or is    *)
(* followed at once by the EXECUTION_RESULT message of its own invocation. *)
(***************************************************************************)
OwnResultFollows ==
    \A i \in 1..Len(appended) :
        appended[i].role = CODE_EXECUTION =>
            \/ i = Len(appended)
            \/ /\ appended[i + 1].role = EXECUTION_RESULT
               /\ authors[i + 1] = authors[i]

C23_InterleavingNeedsOverlap ==
    /\ Len(authors) = Len(appended)
    /\ ~overlapped =>
           /\ OwnResultFollows
           /\ \A i \in 1..(Len(messages) - 1) :
                  messages[i].role = CODE_EXECUTION =>
                      messages[i + 1].role = EXECUTION_RESULT

\* two runs overlap, and the store holds the CODE_EXECUTION message of the
\* first followed at once by the USER query of the second
C23_Witness ==
    /\ overlapped
    /\ \E i \in 1..(Len(appended) - 1) :
           /\ appended[i].role = CODE_EXECUTION
           /\ authors[i] = 1
           /\ authors[i + 1] = 2
    /\ \E i \in 1..(Len(messages) - 1) :
           /\ messages[i].role = CODE_EXECUTION
           /\ messages[i + 1] = UserMessage(Query(2))

(***************************************************************************)
(* C24.  An agent constructed without an initial history holds, from the   *)
(* moment its first invocation has begun, exactly one SYSTEM message, at   *)
(* index 0: _update_system_message replaces the one it finds there, and    *)
(* _trim_history puts messages[0] back in front of what it keeps.          *)
(***************************************************************************)
\* the agent was constructed with an empty history: no message of the
\* initial history was ever in the store
EmptyInitialHistory == \A i \in 1..Len(authors) : authors[i] # 0

SystemMessagesAt(msgs) == {i \in 1..Len(msgs) : msgs[i].role = SYSTEM}

\* C24: starting from an empty initial history, in every state reached by
\* sequential invocations after the first has begun, for every max_history
\* >= 1 (1 included, where nothing is trimmed), the store holds exactly one
\* SYSTEM message and it is the first
C24_OneSystemMessageAtIndex0 ==
    (EmptyInitialHistory /\ Started) => SystemMessagesAt(messages) = {1}

\* a later invocation has finished on an agent that began empty, and the
\* store has been trimmed on the way: one system message, rewritten once,
\* heads what is left
C24_Witness ==
    /\ EmptyInitialHistory
    /\ \E rid \in Runs : rid > 1 /\ pc[rid] = "done"
    /\ Len(messages) < Len(appended) + 1
    /\ Len(messages) = max_history
    /\ messages[1] = SystemMessage(last_system)
    /\ last_system # <<"S", "0", "@", "0">>

(***************************************************************************)
(* C25.  What one invocation appends reads, under role_conversions, user,  *)
(* assistant, user, ...: the USER query, then for a turn with code the     *)
(* CODE_EXECUTION message (assistant) and the EXECUTION_RESULT message     *)
(* (user), and for the turn without code the ASSISTANT message, after      *)
(* which nothing more.  Trimming keeps a suffix, so what the model is      *)
(* called with has no two neighbours of that invocation in the same role.  *)
(***************************************************************************)
RECURSIVE AppendedBy(_, _)
\* the messages among the first n appended that invocation rid appended
AppendedBy(n, rid) ==
    IF n = 0 THEN <<>>
    ELSE IF authors[n] = rid
         THEN Append(AppendedBy(n - 1, rid), appended[n])
         ELSE AppendedBy(n - 1, rid)

Alternates(msgs) ==
    \A k \in 1..Len(msgs) :
        TransportRole(msgs[k].role) = IF k % 2 = 1 THEN USER ELSE ASSISTANT

\* the invocation that appended the message at index i >= 2 of the store
AuthorInStore(i) == authors[Len(appended) - Len(messages) + i]

\* C25: within one invocation, the messages it has appended, read under the
\* transport role mapping, alternate user, assistant, user, ... and begin
\* with its USER query; and whenever the model is called, no two
\* neighbouring messages passed to it that this invocation appended have
\* the same transport role: one is user and the other assistant
C25_OwnMessagesAlternate ==
    \A rid \in Runs :
        LET own == AppendedBy(Len(appended), rid)
        IN  /\ Alternates(own)
            /\ own # <<>> => own[1] = UserMessage(Query(rid))
            /\ pc[rid] = "await_model" =>
                   /\ Len(sent[rid]) = Len(messages)
                   /\ \A i \in 2..(Len(messages) - 1) :
                          (AuthorInStore(i) = rid /\ AuthorInStore(i + 1) = rid)
                              => {sent[rid][i].role, sent[rid][i + 1].role}
                                     = {USER, ASSISTANT}

\* a later invocation calls the model after a turn with code: the store
\* ends with its query, its CODE_EXECUTION and its EXECUTION_RESULT message,
\* passed on as user, assistant, user
C25_Witness ==
    \E rid \in Runs :
        /\ rid > 1
        /\ pc[rid] = "await_model"
        /\ Len(AppendedBy(Len(appended), rid)) = 3
        /\ Len(messages) >= 4
        /\ LET n == Len(messages)
           IN  /\ messages[n - 2] = UserMessage(Query(rid))
               /\ messages[n - 1].role = CODE_EXECUTION
               /\ messages[n].role = EXECUTION_RESULT
               /\ <<sent[rid][n - 2].role, sent[rid][n - 1].role,
                      sent[rid][n].role>> = <<USER, ASSISTANT, USER>>

====
